---- MODULE Spec2Model ----
(***************************************************************************)
(* State-machine model of the bulk file duplicator:                        *)
(*   src/duplicate_files_cli.py              the flag / prompt front end   *)
(*   src/scripts/duplicate_files_advanced.py the positional-argument script*)
(* One run goes main -> load_resume -> limit check -> planning loop ->     *)
(* dry-run return | thread pool -> save_resume -> zip_chunks -> SUCCESS.   *)
(* Several runs may follow each other on the same output directory.        *)
(***************************************************************************)
EXTENDS Integers, Sequences, FiniteSets, TLC

\* ------------------------------------------------------------------ bounds
MaxCopies == 2
MaxSources == 2
MaxPerSub == 2
MaxWorkers == 2
MaxChunk == 2
MaxLimit == 2
\* Copies that fail in one run.
MaxFailures == 1
\* The runs that are followed by another run on the same output directory.
Reruns == {1}

\* ------------------------------------------------------- program constants
DefaultChunkSize == 5000
ScriptArgc == 11
ScriptNames == 9

\* Characters are code points; a string is a sequence of code points.
Underscore == <<95>>
DotTxt == <<46, 116, 120, 116>>
PartPrefix == <<112, 97, 114, 116, 95>>
StemA == <<97>>
StemB == <<98>>
StemM == <<109>>

\* The source files named on the command line.  SrcA and SrcA2 live in
\* different directories and share stem and extension; SrcM does not exist.
SrcA == [dir |-> "d1", stem |-> StemA, ext |-> DotTxt]
SrcA2 == [dir |-> "d2", stem |-> StemA, ext |-> DotTxt]
SrcB == [dir |-> "d1", stem |-> StemB, ext |-> DotTxt]
SrcM == [dir |-> "d1", stem |-> StemM, ext |-> DotTxt]
SourcePool == {SrcA, SrcA2, SrcB, SrcM}
ExistingSources == {SrcA, SrcA2, SrcB}

\* Path.exists() of a source path.
SourceExists(src) == src \in ExistingSources

SeqsUpTo(S, n) == UNION {[1..k -> S] : k \in 1..n}
\* The source lists tried: each file named once, the first one SrcA or the
\* missing SrcM.
SourceLists ==
    {s \in SeqsUpTo(SourcePool, MaxSources) :
        /\ s[1] \in {SrcA, SrcM}
        /\ \A i, j \in DOMAIN s : i # j => s[i] # s[j]}

\* --------------------------------------------------------------- utilities
Min(a, b) == IF a < b THEN a ELSE b

\* str(i) for i >= 0: the decimal digits as code points.
RECURSIVE Digits(_)
Digits(i) == IF i < 10 THEN <<48 + i>> ELSE Digits(i \div 10) \o <<48 + (i % 10)>>

\* uuid.uuid4().hex, abstracted to a fresh number u rendered in hex digits
\* behind a letter, so that it is never a decimal copy index.
RECURSIVE HexDigits(_)
HexDigits(u) ==
    LET d == u % 16
        c == IF d < 10 THEN 48 + d ELSE 87 + d
    IN IF u < 16 THEN <<c>> ELSE HexDigits(u \div 16) \o <<c>>
UuidHex(u) == <<102>> \o HexDigits(u)

\* A file name is the text the f-string builds.
\* f"{stem}_{i}{suffix}"
SeqName(src, i) == src.stem \o Underscore \o Digits(i) \o src.ext
\* f"{stem}_{uuid.uuid4().hex}{suffix}"
RandName(src, u) == src.stem \o Underscore \o UuidHex(u) \o src.ext

FileName(src, i, randomize, u) ==
    IF randomize THEN RandName(src, u) ELSE SeqName(src, i)

\* int(value) >= 0 for the prompt's validator
is_positive_int(v) == v >= 0

\* Mutant of LimitExceeded: the comparison off by one.
LimitExceeded_AtLimit(total, max_limit) == total >= max_limit

\* total > max_limit
LimitExceeded(total, max_limit) == total > max_limit

\* Mutant of PartIndex: the "- 1" forgotten.
PartIndex_FromZero(i, per_subfolder) == (i \div per_subfolder) + 1

\* (i - 1) // per_subfolder + 1
PartIndex(i, per_subfolder) == ((i - 1) \div per_subfolder) + 1

\* The destination: a sequence of path parts below the output root.
\* output_dir / f"part_{idx}" / name, or output_dir / name
DestPath(i, per_subfolder, name) ==
    IF per_subfolder > 0
    THEN <<PartPrefix \o Digits(PartIndex(i, per_subfolder)), name>>
    ELSE <<name>>

\* Mutant of AlreadyCompleted: the ledger is never consulted.
AlreadyCompleted_Never(name, done) == FALSE

\* name in completed
AlreadyCompleted(name, done) == name \in done

\* One source's inner loop: for i in range(1, copies + 1), build the name,
\* skip it when it is in the completed set, else append (src, dst, name).
\* pos and idx are the position in the source list and the loop index the
\* task was built at (kept for reasoning only; the code's tuple has neither).
PlanOne(pos, src, copies, per_subfolder, randomize, done, u0) ==
    LET all == [i \in 1..copies |->
                  LET nm == FileName(src, i, randomize, u0 + i)
                  IN [src |-> src, dst |-> DestPath(i, per_subfolder, nm),
                      name |-> nm, pos |-> pos, idx |-> i]]
    IN SelectSeq(all, LAMBDA t : ~AlreadyCompleted(t.name, done))

\* uuid4 draws made by one source's inner loop.
UuidDraws(copies, randomize) == IF randomize /\ copies > 0 THEN copies ELSE 0

\* ----------------------------------------------------------- configurations
BaseCfg ==
    [frontend |-> "flags", argc |-> 0, sources |-> <<SrcA>>, copies |-> 1,
     per_subfolder |-> 0, workers |-> 1, dry_run |-> FALSE, resume |-> FALSE,
     randomize |-> FALSE, zip |-> FALSE, chunk_size |-> DefaultChunkSize,
     max_limit |-> MaxLimit]

\* argparse: every flag is taken as given (type=int accepts any integer).
FlagConfigs ==
    {c \in [frontend : {"flags"}, argc : {0}, sources : SourceLists,
            copies : (-1)..MaxCopies, per_subfolder : 0..MaxPerSub,
            workers : {1, MaxWorkers}, dry_run : BOOLEAN, resume : BOOLEAN,
            randomize : BOOLEAN, zip : BOOLEAN,
            chunk_size : (1..MaxChunk) \cup {DefaultChunkSize},
            max_limit : 1..MaxLimit] :
        (c.chunk_size = DefaultChunkSize) <=> ~c.zip}

\* The interactive fallback: prompt() asks again until the validator accepts.
PromptConfigs ==
    {c \in [frontend : {"prompt"}, argc : {0},
            sources : SeqsUpTo(SourcePool, 1),
            copies : (-1)..MaxCopies, per_subfolder : {0},
            workers : {0, MaxWorkers}, dry_run : BOOLEAN, resume : {FALSE},
            randomize : {FALSE}, zip : {FALSE},
            chunk_size : {DefaultChunkSize},
            max_limit : {MaxLimit}] :
        is_positive_int(c.copies)}

\* The positional script: argc is len(sys.argv).
ScriptConfigs ==
    {[BaseCfg EXCEPT !.frontend = "script", !.argc = n, !.dry_run = d,
                     !.per_subfolder = p] :
        n \in {ScriptArgc - 1, ScriptArgc}, d \in BOOLEAN, p \in 0..MaxPerSub}

Configs == FlagConfigs \cup PromptConfigs \cup ScriptConfigs

\* ------------------------------------------------------------- zip chunking
\* RESUME_FILE = ".resume_state.json"
RESUME_FILE ==
    <<46, 114, 101, 115, 117, 109, 101, 95, 115, 116, 97, 116, 101,
      46, 106, 115, 111, 110>>

\* str < str: code point by code point, a proper prefix first.
RECURSIVE StrLess(_, _)
StrLess(a, b) ==
    IF b = <<>> THEN FALSE
    ELSE IF a = <<>> THEN TRUE
    ELSE IF a[1] # b[1] THEN a[1] < b[1]
    ELSE StrLess(Tail(a), Tail(b))

\* Path < Path: the lists of parts compared part by part.
RECURSIVE PathLess(_, _)
PathLess(p, q) ==
    IF q = <<>> THEN FALSE
    ELSE IF p = <<>> THEN TRUE
    ELSE IF p[1] # q[1] THEN StrLess(p[1], q[1])
    ELSE PathLess(Tail(p), Tail(q))

\* sorted(S)
RECURSIVE SortPaths(_)
SortPaths(S) ==
    IF S = {} THEN <<>>
    ELSE LET m == CHOOSE x \in S : \A y \in S \ {x} : PathLess(x, y)
         IN <<m>> \o SortPaths(S \ {m})

\* sorted(p for p in output_dir.rglob("*") if p.is_file() and p.name != RESUME_FILE)
ZipFileList(tree) == SortPaths({p \in tree : p[Len(p)] # RESUME_FILE})

\* range(0, len(files), chunk_size)
ChunkStarts(n, chunk_size) == {i \in 0..(n - 1) : i % chunk_size = 0}

\* i // chunk_size + 1
ChunkNumber(i, chunk_size) == (i \div chunk_size) + 1

\* f"{output_dir.name}_part{k}.zip", the output directory being "out"
OutName == <<111, 117, 116>>
PartSuffix == <<95, 112, 97, 114, 116>>
DotZip == <<46, 122, 105, 112>>
ZipName(k) == OutName \o PartSuffix \o Digits(k) \o DotZip

\* Mutant of ChunkSlice: the slice one file short.
ChunkSlice_Short(fl, i, chunk_size) ==
    SubSeq(fl, i + 1, Min(i + chunk_size, Len(fl)) - 1)

\* files[i:i + chunk_size]
ChunkSlice(fl, i, chunk_size) == SubSeq(fl, i + 1, Min(i + chunk_size, Len(fl)))

\* The archives one call of zip_chunks writes: archive name -> entry list.
zip_chunks(tree, chunk_size) ==
    LET fl == ZipFileList(tree)
        starts == ChunkStarts(Len(fl), chunk_size)
        names == {ZipName(ChunkNumber(i, chunk_size)) : i \in starts}
    IN [z \in names |->
          LET i == CHOOSE j \in starts :
                       ZipName(ChunkNumber(j, chunk_size)) = z
          IN ChunkSlice(fl, i, chunk_size)]

\* ------------------------------------------------------------------- state
VARIABLES
    cfg,        \* the run's parameters (args)
    pc,         \* where the run is
    err,        \* why the run died ("" while it has not)
    completed,  \* generate_files: completed
    tasks,      \* generate_files: tasks
    srcIdx,     \* position of "for src in sources"
    fut,        \* the futures: task number -> new/queued/running/ok/failed
    collected,  \* futures as_completed has handed to the main thread
    reported,   \* the number printed by SUCCESS (-1: nothing printed)
    dryCount,   \* the number printed by [DRY-RUN] (-1: nothing printed)
    dirs,       \* directories that exist at or below the output root
    files,      \* files below the output root: path -> [src, full]
    ledger,     \* the .resume_state.json file
    archives,   \* the archives beside the output root: name -> entries
    uuidCtr,    \* uuid4 values drawn so far
    run,        \* number of the current run on this output directory
    zipWritten, \* history: the archives this run's zip_chunks wrote
    queuedAtRaise, \* history: the tasks still queued when result() raised
    taken,      \* history: how often a pool thread has taken each task
    phases,     \* history: the steps of this run, in the order they happened
    prev        \* history: the previous run's parameters and result

vars == <<cfg, pc, err, completed, tasks, srcIdx, fut, collected, reported,
          dryCount, dirs, files, ledger, archives, uuidCtr, run, zipWritten,
          queuedAtRaise, taken, phases, prev>>

disk == <<dirs, files, ledger, archives>>

NoLedger == [exists |-> FALSE, valid |-> FALSE, ids |-> {}]

\* The output root as a directory path, and a destination's parent chain
\* (mkdir(parents=True, exist_ok=True)).
RootDir == <<>>
ParentDirs(dst) == {SubSeq(dst, 1, k) : k \in 0..(Len(dst) - 1)}

\* What is in the output tree as rglob sees it.
TreeFiles == DOMAIN files \cup (IF ledger.exists THEN {<<RESUME_FILE>>} ELSE {})

FreshRun(c) ==
    /\ cfg = c
    /\ pc = "start"
    /\ err = ""
    /\ completed = {}
    /\ tasks = <<>>
    /\ srcIdx = 1
    /\ fut = <<>>
    /\ collected = {}
    /\ reported = -1
    /\ dryCount = -1
    /\ zipWritten = {}
    /\ queuedAtRaise = {}
    /\ taken = <<>>
    /\ phases = <<>>

Init ==
    /\ \E c \in Configs : FreshRun(c)
    /\ dirs = {}
    /\ files = <<>>
    /\ ledger = NoLedger
    /\ archives = <<>>
    /\ uuidCtr = 0
    /\ run = 1
    /\ prev = [valid |-> FALSE, cfg |-> BaseCfg, ok |-> FALSE,
               dryCount |-> -1, dirs |-> {}, files |-> <<>>,
               ledger |-> NoLedger, archives |-> <<>>]

\* die(msg) / an uncaught exception: the process ends with a non-zero status.
Die(why) ==
    /\ pc' = "error"
    /\ err' = why

Tasks == 1..Len(tasks)
InPool == pc \in {"submit", "collect", "drain"}
Running == {t \in DOMAIN fut : fut[t] = "running"}
Queued == {t \in DOMAIN fut : fut[t] = "queued"}
Unsubmitted == {t \in DOMAIN fut : fut[t] = "new"}
Finished == {t \in DOMAIN fut : fut[t] \in {"ok", "failed"}}
Lowest(S) == CHOOSE t \in S : \A u \in S : t <= u

\* Mutant of DryRunResult: the dry run records every planned name.
DryRunResult_RecordsAll(done, ts) == done \cup {ts[t].name : t \in DOMAIN ts}

\* The dry-run branch: "return completed", the set as it was loaded.
DryRunResult(done, ts) == done

\* Mutant of SaveWanted: the ledger is saved whether or not --resume is set.
SaveWanted_Always(c) == TRUE

\* if resume: save_resume(output_dir, completed)
SaveWanted(c) == c.resume

\* Mutant of ZipWanted: "and not args.dry_run" left out.
ZipWanted_IgnoresDryRun(c) == c.zip

\* if args.zip and not args.dry_run: zip_chunks(...)
ZipWanted(c) == c.zip /\ ~c.dry_run

AfterSave(c) == IF ZipWanted(c) THEN "zip" ELSE "report"
AfterPool(c) == IF SaveWanted(c) THEN "save" ELSE AfterSave(c)

\* Mutant of IdleWorker: one thread more than max_workers.
IdleWorker_OneMore(running, workers) == running <= workers

\* ThreadPoolExecutor(max_workers=workers): a thread is started for a queued
\* item only while fewer than max_workers threads exist.
IdleWorker(running, workers) == running < workers

\* Mutant of AddCompleted: the set is replaced, what it held is lost.
AddCompleted_Replace(done, name) == {name}

\* completed.add(name)
AddCompleted(done, name) == done \cup {name}

\* Mutant of ResultRaises: the task's exception is swallowed.
ResultRaises_Swallowed(state) == FALSE

\* fut.result() re-raises the exception the task ended with.
ResultRaises(state) == state = "failed"

\* Mutant of load_resume: the file is there but its content is not taken.
load_resume_Empty(led) == {}

\* load_resume, lines 48-52: set(json.load(f)) if the file exists, else set()
load_resume(led) == IF led.exists THEN led.ids ELSE {}

\* shutil.copy2(src, dst) succeeded: dst holds the whole source.
WriteFile(fs, dst, src, whole) ==
    [p \in DOMAIN fs \cup {dst} |->
        IF p = dst THEN [src |-> src, full |-> whole] ELSE fs[p]]

\* ----------------------------------------------------------------- actions
\* main(), lines 206-208: split the sources, mkdir the output root.
MainStart ==
    /\ pc = "start"
    /\ cfg.frontend \in {"flags", "prompt"}
    /\ dirs' = dirs \cup {RootDir}
    /\ pc' = "load"
    /\ phases' = Append(phases, "mkroot")
    /\ UNCHANGED <<cfg, err, completed, tasks, srcIdx, fut, collected,
                   reported, dryCount, files, ledger, archives, uuidCtr,
                   run, prev, zipWritten,
                   queuedAtRaise, taken>>

\* The script, lines 18-31: len(sys.argv) must be 11, and the 10 arguments
\* are then unpacked into 9 names, which raises ValueError.
ScriptStart ==
    /\ pc = "start"
    /\ cfg.frontend = "script"
    /\ IF cfg.argc # ScriptArgc
       THEN Die("args")
       ELSE IF cfg.argc - 1 # ScriptNames
            THEN Die("unpack")
            ELSE pc' = "script_validate" /\ err' = err
    /\ phases' = Append(phases, "args")
    /\ UNCHANGED <<cfg, completed, tasks, srcIdx, fut, collected, reported,
                   dryCount, dirs, files, ledger, archives, uuidCtr, run,
                   prev, zipWritten,
                   queuedAtRaise, taken>>

\* generate_files, line 81: completed = load_resume(output_dir) if resume
\* else set().  json.load raises on a file that holds no JSON document.
LoadResume ==
    /\ pc = "load"
    /\ IF cfg.resume /\ ledger.exists /\ ~ledger.valid
       THEN /\ Die("corrupt")
            /\ UNCHANGED completed
       ELSE /\ completed' = IF cfg.resume THEN load_resume(ledger) ELSE {}
            /\ pc' = "limit"
            /\ err' = err
    /\ phases' = IF cfg.resume THEN Append(phases, "load") ELSE phases
    /\ UNCHANGED <<cfg, tasks, srcIdx, fut, collected, reported, dryCount,
                   dirs, files, ledger, archives, uuidCtr, run, prev, zipWritten,
                   queuedAtRaise, taken>>

\* generate_files, lines 84-86.
LimitCheck ==
    /\ pc = "limit"
    /\ IF LimitExceeded(Len(cfg.sources) * cfg.copies, cfg.max_limit)
       THEN Die("limit")
       ELSE pc' = "plan" /\ err' = err
    /\ phases' = Append(phases, "limit")
    /\ UNCHANGED <<cfg, completed, tasks, srcIdx, fut, collected, reported,
                   dryCount, dirs, files, ledger, archives, uuidCtr, run,
                   prev, zipWritten,
                   queuedAtRaise, taken>>

\* generate_files, lines 88-112: one turn of "for src in sources".
PlanSource ==
    /\ pc = "plan"
    /\ srcIdx <= Len(cfg.sources)
    /\ LET src == cfg.sources[srcIdx] IN
         IF ~SourceExists(src)
         THEN /\ Die("source")
              /\ UNCHANGED <<tasks, srcIdx, uuidCtr>>
         ELSE /\ tasks' = tasks \o PlanOne(srcIdx, src, cfg.copies, cfg.per_subfolder,
                                           cfg.randomize, completed,
                                           uuidCtr)
              /\ uuidCtr' = uuidCtr + UuidDraws(cfg.copies, cfg.randomize)
              /\ srcIdx' = srcIdx + 1
              /\ UNCHANGED <<pc, err>>
    /\ phases' = Append(phases, "plan")
    /\ UNCHANGED <<cfg, completed, fut, collected, reported, dryCount, dirs,
                   files, ledger, archives, run, prev, zipWritten,
                   queuedAtRaise, taken>>

\* generate_files, lines 114-116: print the task count, return completed.
DryRun ==
    /\ pc = "plan"
    /\ srcIdx > Len(cfg.sources)
    /\ cfg.dry_run
    /\ dryCount' = Len(tasks)
    /\ completed' = DryRunResult(completed, tasks)
    /\ pc' = AfterSave(cfg)
    /\ phases' = Append(phases, "dry")
    /\ UNCHANGED <<cfg, err, tasks, srcIdx, fut, collected, reported, dirs,
                   files, ledger, archives, uuidCtr, run, prev, zipWritten,
                   queuedAtRaise, taken>>

\* generate_files, line 118: ThreadPoolExecutor(max_workers=workers), which
\* raises ValueError for workers <= 0.
StartPool ==
    /\ pc = "plan"
    /\ srcIdx > Len(cfg.sources)
    /\ ~cfg.dry_run
    /\ IF cfg.workers <= 0
       THEN /\ Die("workers")
            /\ UNCHANGED <<fut, taken>>
       ELSE /\ fut' = [t \in Tasks |-> "new"]
            /\ taken' = [t \in Tasks |-> 0]
            /\ pc' = "submit"
            /\ err' = err
    /\ phases' = Append(phases, "exec")
    /\ UNCHANGED <<cfg, completed, tasks, srcIdx, collected, reported,
                   dryCount, dirs, files, ledger, archives, uuidCtr, run,
                   prev, zipWritten,
                   queuedAtRaise>>

\* lines 119-122: exe.submit(copy_one, src, dst) for the next task; when the
\* comprehension is through, the main thread goes on to as_completed.
Submit ==
    /\ pc = "submit"
    /\ IF Unsubmitted = {}
       THEN pc' = "collect" /\ fut' = fut
       ELSE pc' = pc /\ fut' = [fut EXCEPT ![Lowest(Unsubmitted)] = "queued"]
    /\ UNCHANGED <<cfg, err, completed, tasks, srcIdx, collected, reported,
                   dryCount, dirs, files, ledger, archives, uuidCtr, run,
                   phases, prev, zipWritten,
                   queuedAtRaise, taken>>

\* A pool thread takes the oldest queued work item; copy_one, line 65:
\* dst.parent.mkdir(parents=True, exist_ok=True).
WorkerStart ==
    /\ InPool
    /\ Queued # {}
    /\ IdleWorker(Cardinality(Running), cfg.workers)
    /\ LET t == Lowest(Queued) IN
         /\ fut' = [fut EXCEPT ![t] = "running"]
         /\ taken' = [taken EXCEPT ![t] = @ + 1]
         /\ dirs' = dirs \cup ParentDirs(tasks[t].dst)
    /\ UNCHANGED <<cfg, pc, err, completed, tasks, srcIdx, collected,
                   reported, dryCount, files, ledger, archives, uuidCtr, run,
                   phases, prev, zipWritten,
                   queuedAtRaise>>

\* copy_one, lines 66-67: shutil.copy2(src, dst) returns.
WorkerCopy(t) ==
    /\ InPool
    /\ t \in Running
    /\ fut' = [fut EXCEPT ![t] = "ok"]
    /\ files' = WriteFile(files, tasks[t].dst, tasks[t].src, TRUE)
    /\ UNCHANGED <<cfg, pc, err, completed, tasks, srcIdx, collected,
                   reported, dryCount, dirs, ledger, archives, uuidCtr, run,
                   phases, prev, zipWritten,
                   queuedAtRaise, taken>>

\* copy_one, line 66: shutil.copy2 raises (unreadable source, unwritable
\* destination, disk full), before it opened dst or part of the way through.
WorkerFail(t) ==
    /\ InPool
    /\ t \in Running
    /\ Cardinality({u \in DOMAIN fut : fut[u] = "failed"}) < MaxFailures
    /\ fut' = [fut EXCEPT ![t] = "failed"]
    /\ \/ files' = files
       \/ files' = WriteFile(files, tasks[t].dst, tasks[t].src, FALSE)
    /\ UNCHANGED <<cfg, pc, err, completed, tasks, srcIdx, collected,
                   reported, dryCount, dirs, ledger, archives, uuidCtr, run,
                   phases, prev, zipWritten,
                   queuedAtRaise, taken>>

\* lines 125-129: as_completed hands over a finished future; fut.result()
\* re-raises the task's exception, else the name goes into completed.
Collect(t) ==
    /\ pc = "collect"
    /\ t \in Finished \ collected
    /\ collected' = collected \cup {t}
    /\ IF ResultRaises(fut[t])
       THEN /\ pc' = "drain"
            /\ queuedAtRaise' = Queued
            /\ UNCHANGED completed
       ELSE /\ completed' = AddCompleted(completed, tasks[t].name)
            /\ pc' = pc
            /\ UNCHANGED queuedAtRaise
    /\ UNCHANGED <<cfg, err, tasks, srcIdx, fut, reported, dryCount, dirs,
                   files, ledger, archives, uuidCtr, run, phases, prev, zipWritten, taken>>

\* Leaving "with ThreadPoolExecutor" after the loop ended: every future was
\* handed over, shutdown(wait=True) has nothing to wait for.
PoolExit ==
    /\ pc = "collect"
    /\ collected = Tasks
    /\ pc' = AfterPool(cfg)
    /\ UNCHANGED <<cfg, err, completed, tasks, srcIdx, fut, collected,
                   reported, dryCount, dirs, files, ledger, archives,
                   uuidCtr, run, phases, prev, zipWritten,
                   queuedAtRaise, taken>>

\* Mutant of Drained: the exception ends the process at once, the pool is
\* not waited for.
Drained_NoWait ==
    /\ pc = "drain"
    /\ Die("copy")
    /\ UNCHANGED <<cfg, completed, tasks, srcIdx, fut, collected, reported,
                   dryCount, dirs, files, ledger, archives, uuidCtr, run,
                   phases, prev, zipWritten, queuedAtRaise, taken>>

\* Leaving "with ThreadPoolExecutor" on the exception: __exit__ calls
\* shutdown(wait=True) without cancel_futures, so the pool threads first work
\* off every queued item; then the exception ends the process.
Drained ==
    /\ pc = "drain"
    /\ Queued = {}
    /\ Running = {}
    /\ Die("copy")
    /\ UNCHANGED <<cfg, completed, tasks, srcIdx, fut, collected, reported,
                   dryCount, dirs, files, ledger, archives, uuidCtr, run,
                   phases, prev, zipWritten,
                   queuedAtRaise, taken>>

\* save_resume, lines 56-57: open(path, "w") creates or truncates the file.
SaveOpen ==
    /\ pc = "save"
    /\ ledger' = [exists |-> TRUE, valid |-> FALSE, ids |-> {}]
    /\ pc' = "save_write"
    /\ phases' = Append(phases, "save")
    /\ UNCHANGED <<cfg, err, completed, tasks, srcIdx, fut, collected,
                   reported, dryCount, dirs, files, archives, uuidCtr, run,
                   prev, zipWritten,
                   queuedAtRaise, taken>>

\* save_resume, line 58: json.dump(sorted(completed), f), and the file closes.
SaveWrite ==
    /\ pc = "save_write"
    /\ ledger' = [exists |-> TRUE, valid |-> TRUE, ids |-> completed]
    /\ pc' = AfterSave(cfg)
    /\ UNCHANGED <<cfg, err, completed, tasks, srcIdx, fut, collected,
                   reported, dryCount, dirs, files, archives, uuidCtr, run,
                   phases, prev, zipWritten,
                   queuedAtRaise, taken>>

\* main(), line 223: zip_chunks(output_dir, args.chunk_size).  ZipFile(.., "w")
\* replaces an archive of the same name; other archives stay.
ZipStep ==
    /\ pc = "zip"
    /\ LET new == zip_chunks(TreeFiles, cfg.chunk_size) IN
         /\ archives' = [k \in DOMAIN archives \cup DOMAIN new |->
                           IF k \in DOMAIN new THEN new[k] ELSE archives[k]]
         /\ zipWritten' = DOMAIN new
    /\ pc' = "report"
    /\ phases' = Append(phases, "zip")
    /\ UNCHANGED <<cfg, err, completed, tasks, srcIdx, fut, collected,
                   reported, dryCount, dirs, files, ledger, uuidCtr, run,
                   prev,
                   queuedAtRaise, taken>>

\* main(), line 225: print(f"SUCCESS: {len(completed)} files processed").
Success ==
    /\ pc = "report"
    /\ reported' = Cardinality(completed)
    /\ pc' = "done"
    /\ phases' = Append(phases, "report")
    /\ UNCHANGED <<cfg, err, completed, tasks, srcIdx, fut, collected,
                   dryCount, dirs, files, ledger, archives, uuidCtr, run,
                   prev, zipWritten,
                   queuedAtRaise, taken>>

\* The parameters of a following run on the same output directory: the same
\* ones, or, after a run that ended with SUCCESS, --dry-run switched or the
\* largest copy count.
NextConfigs(c, ok) ==
    IF ok
    THEN {c, [c EXCEPT !.dry_run = ~@], [c EXCEPT !.copies = MaxCopies]}
    ELSE {c}

\* The program is started again on the same output directory (followed here
\* for runs with --resume, whose ledger is what ties runs together, that got
\* as far as the thread pool, the save or the SUCCESS line).
NewRun ==
    /\ pc = "done" \/ (pc = "error" /\ err \in {"copy", "crash"})
    /\ run \in Reruns
    /\ cfg.frontend = "flags"
    /\ cfg.resume
    /\ prev' = [valid |-> TRUE, cfg |-> cfg, ok |-> pc = "done",
                dryCount |-> dryCount, dirs |-> dirs, files |-> files,
                ledger |-> ledger, archives |-> archives]
    /\ run' = run + 1
    /\ \E c \in NextConfigs(cfg, pc = "done") :
         /\ cfg' = c
         /\ pc' = "start"
         /\ err' = ""
         /\ completed' = {}
         /\ tasks' = <<>>
         /\ srcIdx' = 1
         /\ fut' = <<>>
         /\ collected' = {}
         /\ reported' = -1
         /\ dryCount' = -1
         /\ zipWritten' = {}
         /\ queuedAtRaise' = {}
         /\ taken' = <<>>
         /\ phases' = <<>>
    /\ UNCHANGED <<dirs, files, ledger, archives, uuidCtr>>

Next ==
    \/ MainStart
    \/ ScriptStart
    \/ LoadResume
    \/ LimitCheck
    \/ PlanSource
    \/ DryRun
    \/ StartPool
    \/ Submit
    \/ WorkerStart
    \/ \E t \in DOMAIN fut : WorkerCopy(t)
    \/ \E t \in DOMAIN fut : WorkerFail(t)
    \/ \E t \in DOMAIN fut : Collect(t)
    \/ PoolExit
    \/ Drained
    \/ SaveOpen
    \/ SaveWrite
    \/ ZipStep
    \/ Success
    \/ NewRun

Spec == Init /\ [][Next]_vars

\* The process is killed (SIGKILL, power loss) inside save_resume, lines
\* 56-58: before open(path, "w"), or after it truncated the file and before
\* json.dump's text has reached it.
Crash ==
    /\ pc \in {"save", "save_write"}
    /\ Die("crash")
    /\ UNCHANGED <<cfg, completed, tasks, srcIdx, fut, collected, reported,
                   dryCount, dirs, files, ledger, archives, uuidCtr, run,
                   phases, prev, zipWritten, queuedAtRaise, taken>>

CrashNext == Next \/ Crash

\* The runs of Spec, and those that a kill inside save_resume ends.
CrashSpec == Init /\ [][CrashNext]_vars

\* -------------------------------------------------- shared by the properties
\* The output directory as this run found it.
StartDirs == IF run = 1 THEN {} ELSE prev.dirs
StartFiles == IF run = 1 THEN <<>> ELSE prev.files
StartLedger == IF run = 1 THEN NoLedger ELSE prev.ledger
StartArchives == IF run = 1 THEN <<>> ELSE prev.archives

\* The set load_resume returned in this run.
LoadedSet ==
    IF cfg.resume /\ StartLedger.exists THEN StartLedger.ids ELSE {}

IsCli == cfg.frontend \in {"flags", "prompt"}
Total == Len(cfg.sources) * cfg.copies
AllSourcesExist == \A k \in DOMAIN cfg.sources : SourceExists(cfg.sources[k])

\* "for src in sources" has run to its end.
PlanFinished ==
    /\ IsCli
    /\ pc \notin {"start", "load", "limit", "error"}
    /\ srcIdx > Len(cfg.sources)

TaskNames == {tasks[t].name : t \in Tasks}
Executed == {t \in DOMAIN fut : fut[t] \in {"running", "ok", "failed"}}

\* ------------------------------------------------------------------ claims
\* C1 (as stated): for every valid input (existing sources, copies >= 1,
\* per_subfolder >= 0, either naming mode, empty ledger) planning yields
\* exactly len(sources) * copies tasks, no two with the same destination.
C1_PlanUniqueDestinations ==
    (PlanFinished /\ AllSourcesExist /\ cfg.copies >= 1
        /\ cfg.per_subfolder >= 0 /\ LoadedSet = {})
    => /\ Len(tasks) = Len(cfg.sources) * cfg.copies
       /\ \A i, j \in Tasks : i # j => tasks[i].dst # tasks[j].dst

\* C2: a second run with the same sequential-mode parameters and --resume,
\* after a successful first one, plans no task at all (every name is in the
\* loaded ledger), submits and copies nothing, and leaves the output files,
\* the ledger's identifiers and the archives as the first run left them.
SameRerun ==
    /\ prev.valid
    /\ prev.ok
    /\ cfg = prev.cfg
    /\ cfg.resume
    /\ ~cfg.randomize
    /\ ~cfg.dry_run

C2_ResumeIdempotent ==
    SameRerun =>
        /\ tasks = <<>>
        /\ Executed = {}
        /\ files = prev.files
        /\ archives = prev.archives
        /\ ledger.valid => ledger.ids = prev.ledger.ids
        /\ pc = "done" => (ledger = prev.ledger /\ dirs = prev.dirs)

\* C2 witness: the second run has ended, over files the first run copied.
C2_Witness ==
    /\ SameRerun
    /\ pc = "done"
    /\ DOMAIN prev.files # {}
    /\ prev.ledger.ids # {}

\* C3: a total above max_limit never gets past the gate: the run is rejected
\* with nothing planned, submitted or copied and no file, ledger or archive
\* written; a total within the limit is never rejected by the gate.
C3_SafetyGate ==
    /\ Total > cfg.max_limit =>
         /\ pc \in {"start", "load", "limit", "error"}
         /\ tasks = <<>> /\ fut = <<>>
         /\ files = StartFiles
         /\ ledger = StartLedger
         /\ archives = StartArchives
         /\ dirs \subseteq StartDirs \cup {RootDir}
         /\ reported = -1
    /\ Total <= cfg.max_limit => err # "limit"

\* C3 witness: the gate rejected a run on a directory that holds files.
C3_Witness ==
    /\ pc = "error"
    /\ err = "limit"
    /\ DOMAIN files # {}

Range(f) == {f[x] : x \in DOMAIN f}

\* C4: a dry run copies nothing, creates no part_<n> subfolder, and writes
\* neither the ledger nor an archive: the output directory stays as the run
\* found it (main() makes the output root itself).
C4_DryRunNoMutation ==
    cfg.dry_run =>
        /\ files = StartFiles
        /\ ledger = StartLedger
        /\ archives = StartArchives
        /\ dirs \subseteq StartDirs \cup {RootDir}
        /\ fut = <<>>
        /\ Range(phases) \cap {"exec", "save", "zip"} = {}

\* C4 witness: a dry run with tasks bound for subfolders, --resume and --zip
\* has ended.
C4_Witness ==
    /\ cfg.dry_run
    /\ pc = "done"
    /\ dryCount > 0
    /\ cfg.per_subfolder > 0
    /\ cfg.resume
    /\ cfg.zip

RECURSIVE Concat(_, _)
Concat(f, m) == IF m = 0 THEN <<>> ELSE Concat(f, m - 1) \o f[ZipName(m)]

C6_ArchiveCompleteness ==
    (pc \in {"report", "done"} /\ "zip" \in Range(phases)) =>
        LET n == Cardinality(DOMAIN files)
            m == Cardinality(zipWritten)
            cat == Concat(archives, m)
        IN /\ zipWritten = {ZipName(k) : k \in 1..m}
           /\ Len(cat) = n
           /\ Range(cat) = DOMAIN files
           /\ \A i, j \in 1..Len(cat) : i < j => PathLess(cat[i], cat[j])
           /\ \A k \in 1..m :
                /\ Len(archives[ZipName(k)]) \in 1..cfg.chunk_size
                /\ k < m => Len(archives[ZipName(k)]) = cfg.chunk_size
           /\ n = 0 => m = 0
           /\ (n > 0 /\ cfg.chunk_size >= n) => m = 1

\* C6 witness: zip_chunks wrote more than one archive, the ledger file being
\* in the tree.
C6_Witness ==
    /\ pc = "done"
    /\ Cardinality(zipWritten) > 1
    /\ ledger.exists

\* C7: with per_subfolder > 0 the copy with loop index i goes to part_<n>,
\* where (n - 1) * per_subfolder < i <= n * per_subfolder, so a part holds
\* at most per_subfolder copies of one source; with per_subfolder = 0 every
\* destination is directly under the output root.
C7_SubfolderPartition ==
    /\ \A t \in Tasks :
         IF cfg.per_subfolder > 0
         THEN /\ Len(tasks[t].dst) = 2
              /\ tasks[t].dst[2] = tasks[t].name
              /\ \E n \in 1..tasks[t].idx :
                   /\ tasks[t].dst[1] = PartPrefix \o Digits(n)
                   /\ (n - 1) * cfg.per_subfolder < tasks[t].idx
                   /\ tasks[t].idx <= n * cfg.per_subfolder
         ELSE tasks[t].dst = <<tasks[t].name>>
    /\ cfg.per_subfolder > 0 =>
         \A t \in Tasks :
            Cardinality({u \in Tasks : /\ tasks[u].pos = tasks[t].pos
                                       /\ tasks[u].dst[1] = tasks[t].dst[1]})
              <= cfg.per_subfolder

\* C7 witness: copy per_subfolder + 1 of a source was copied into its part.
C7_Witness ==
    /\ pc = "done"
    /\ cfg.per_subfolder > 0
    /\ \E t \in Tasks :
         /\ tasks[t].idx = cfg.per_subfolder + 1
         /\ tasks[t].dst \in DOMAIN files

\* C8 (as stated): a run with a non-positive copies value, a missing source
\* or a total above the limit executes no task and never reaches the
\* SUCCESS line.
C8_ValidationFailuresError ==
    (cfg.copies <= 0 \/ ~AllSourcesExist \/ Total > cfg.max_limit) =>
        /\ pc # "done"
        /\ reported = -1
        /\ Executed = {}

StatedRank(ph) ==
    CASE ph \in {"mkroot", "args"} -> 0
      [] ph = "plan" -> 1
      [] ph = "limit" -> 2
      [] ph = "load" -> 3
      [] ph \in {"exec", "dry"} -> 4
      [] ph = "save" -> 5
      [] ph = "zip" -> 6
      [] OTHER -> 7

\* The place of a step in the order of the code: output root, ledger load,
\* safety check, per-source validation and planning with the ledger filter,
\* copy execution (or the dry-run return), save, pack, SUCCESS.
CodeRank(ph) ==
    CASE ph \in {"mkroot", "args"} -> 0
      [] ph = "load" -> 1
      [] ph = "limit" -> 2
      [] ph = "plan" -> 3
      [] ph \in {"exec", "dry"} -> 4
      [] ph = "save" -> 5
      [] ph = "zip" -> 6
      [] OTHER -> 7

AllCopied ==
    /\ DOMAIN fut = Tasks
    /\ \A t \in Tasks : fut[t] = "ok"
    /\ collected = Tasks

C11_SafetyCheckBeforeMutation ==
    (IsCli /\ (pc \in {"start", "load", "limit"} \/ err = "limit")) =>
        /\ dirs = StartDirs
        /\ files = StartFiles
        /\ ledger = StartLedger
        /\ archives = StartArchives

\* The identifiers the ledger file holds, as load_resume would read them.
PersistedIds == IF ledger.exists /\ ledger.valid THEN ledger.ids ELSE {}

\* A file of that name is in the output tree and holds a whole copy.
CopiedWhole(id) ==
    \E p \in DOMAIN files : p[Len(p)] = id /\ files[p].full

\* C12 (as stated): at every point of a run, each identifier in the completed
\* set and each identifier in the ledger file names a destination file that
\* exists and was copied whole; an identifier is recorded only once its copy
\* has finished successfully.
C12_LedgerSoundness ==
    /\ \A id \in completed \cup PersistedIds : CopiedWhole(id)
    /\ \A t \in collected : fut[t] = "ok" => tasks[t].name \in completed
    /\ \A t \in Tasks :
         tasks[t].name \in completed \ LoadedSet =>
            \E u \in collected : fut[u] = "ok" /\ tasks[u].name = tasks[t].name

\* C13 (as stated): after a crash at any point inside save_resume, in a run
\* that found identifiers in a valid ledger file, the file holds the set it held
\* before the run or the complete new set, never an empty or cut-off text.
C13_AtomicLedgerSave ==
    (/\ pc = "error" /\ err = "crash"
     /\ StartLedger.exists /\ StartLedger.valid /\ StartLedger.ids # {}) =>
        \/ ledger = StartLedger
        \/ ledger = [exists |-> TRUE, valid |-> TRUE, ids |-> completed]

\* C14 (as stated): a run whose source list names a file that does not exist,
\* at whatever position, fails with the source-not-found error before any
\* task has been planned and before any copy or directory creation.
C14_SourceValidationFirst ==
    (IsCli /\ ~AllSourcesExist) =>
        /\ tasks = <<>>
        /\ Executed = {}
        /\ files = StartFiles
        /\ dirs = StartDirs
        /\ pc \in {"done", "error"} => (pc = "error" /\ err = "source")

\* C15: at every moment the copies in flight number at most --workers; the
\* tasks handed to the pool are exactly the planned ones; no task is ever
\* taken by a pool thread more than once; and once the pool has been left
\* in a run without a failed copy, every task has been taken exactly once
\* and its destination file is there, a whole copy.
C15_BoundedParallelism ==
    /\ Cardinality(Running) <= cfg.workers \/ Running = {}
    /\ DOMAIN taken = DOMAIN fut
    /\ fut # <<>> => DOMAIN fut = Tasks
    /\ \A t \in DOMAIN taken :
         /\ taken[t] <= 1
         /\ taken[t] = 1 <=> fut[t] \in {"running", "ok", "failed"}
    /\ (~cfg.dry_run /\ pc \in {"save", "save_write", "zip", "report", "done"}) =>
         /\ DOMAIN fut = Tasks
         /\ \A t \in Tasks :
              /\ taken[t] = 1
              /\ fut[t] = "ok"
              /\ tasks[t].dst \in DOMAIN files
              /\ files[tasks[t].dst].full

\* C15 witness: every pool thread is busy copying while a submitted task
\* waits in the queue.
C15_Witness ==
    /\ cfg.workers >= 1
    /\ Cardinality(Running) = cfg.workers
    /\ Queued # {}

\* The names of the tasks as_completed has handed over without an exception.
CollectedNames == {tasks[t].name : t \in {u \in collected : fut[u] = "ok"}}

\* C16: whatever the order in which the copies finish and are handed over,
\* the completed set is at every moment the loaded ledger set united with
\* the names of the tasks handed over so far; every task is handed over
\* once; and a run without a failed copy ends with the loaded set united
\* with the names of all submitted tasks, reporting that set's size.
C16_OrderIndependentFinalState ==
    /\ (~cfg.dry_run /\ PlanFinished) =>
         /\ completed = LoadedSet \cup CollectedNames
         /\ collected \subseteq Finished
    /\ (~cfg.dry_run /\ pc \in {"save", "save_write", "zip", "report", "done"}) =>
         /\ collected = Tasks
         /\ DOMAIN fut = Tasks
         /\ completed = LoadedSet \cup TaskNames
    /\ (~cfg.dry_run /\ pc = "done") =>
         reported = Cardinality(LoadedSet \cup TaskNames)

\* C16 witness: a run over a non-empty ledger with two pool threads and at
\* least two tasks has ended with SUCCESS.
C16_Witness ==
    /\ pc = "done"
    /\ ~cfg.dry_run
    /\ LoadedSet # {}
    /\ Len(tasks) >= 2
    /\ cfg.workers >= 2
    /\ reported > Len(tasks)

\* C17: a run in which a copy has failed, and a run rejected by the limit
\* check or for a missing source, leaves the ledger file as it found it, so
\* the names of the copies that did finish in it are not in the file; the
\* next run with --resume and sequential names plans every file of the
\* failed run whose name is not in the ledger again.
C17_LedgerUnchangedOnFailedRun ==
    /\ (\E t \in DOMAIN fut : fut[t] = "failed") => ledger = StartLedger
    /\ (pc = "error" /\ err \in {"copy", "limit", "source"}) =>
         ledger = StartLedger
    /\ (prev.valid /\ ~prev.ok /\ cfg.resume /\ ~cfg.randomize /\ PlanFinished) =>
         \A p \in DOMAIN prev.files :
            p[Len(p)] \notin LoadedSet => \E t \in Tasks : tasks[t].dst = p

\* C17 witness: the run before this one died of a failed copy after it had
\* copied a file whole; its name was not in the ledger this run loaded, the
\* file was copied again, and this run has saved the name.
C17_Witness ==
    /\ prev.valid
    /\ ~prev.ok
    /\ pc = "done"
    /\ \E t \in Tasks :
         /\ tasks[t].dst \in DOMAIN prev.files
         /\ prev.files[tasks[t].dst].full
         /\ tasks[t].name \notin LoadedSet
         /\ fut[t] = "ok"
         /\ tasks[t].name \in PersistedIds

\* C18: a run with --resume that ends with SUCCESS, real or dry, sequential
\* or randomized, whatever its copy count, leaves a valid ledger file that
\* holds every identifier the file held when the run began.
C18_LedgerMonotonic ==
    (cfg.resume /\ pc = "done") =>
        /\ StartLedger.ids \subseteq PersistedIds
        /\ ledger.exists => ledger.valid
        /\ ~cfg.dry_run => PersistedIds = StartLedger.ids \cup TaskNames

\* C18 witness: a second run with random names has ended with SUCCESS and
\* its ledger holds the first run's identifiers and new ones.
C18_Witness ==
    /\ prev.valid
    /\ prev.ok
    /\ cfg.resume
    /\ cfg.randomize
    /\ pc = "done"
    /\ prev.ledger.ids # {}
    /\ prev.ledger.ids \subseteq PersistedIds
    /\ PersistedIds # prev.ledger.ids

\* The (source, destination) pairs of a task list, in order.
Pairs(ts) == [t \in DOMAIN ts |-> <<ts[t].src, ts[t].dst>>]

\* generate_files, lines 88-112, over the whole source list with an empty
\* completed set, from source number k on.
RECURSIVE CliPlanFrom(_, _)
CliPlanFrom(c, k) ==
    IF k > Len(c.sources) THEN <<>>
    ELSE PlanOne(k, c.sources[k], c.copies, c.per_subfolder, c.randomize, {}, 0)
         \o CliPlanFrom(c, k + 1)

\* The script, lines 80-97: one source's inner loop.  The folder is the
\* target or target/part_<n>, the file name f"{name}_{i}{ext}" (or
\* f"{uuid4().hex}{ext}", without the stem).
ScriptPlanOne(src, copies, per_subfolder, randomize, u0) ==
    [i \in 1..copies |->
        LET folder == IF per_subfolder > 0
                      THEN <<PartPrefix \o Digits(((i - 1) \div per_subfolder) + 1)>>
                      ELSE <<>>
            filename == IF randomize
                        THEN UuidHex(u0 + i) \o src.ext
                        ELSE src.stem \o Underscore \o Digits(i) \o src.ext
        IN [src |-> src, dst |-> folder \o <<filename>>]]

\* The script, lines 76-97, from source number k on.
RECURSIVE ScriptPlanFrom(_, _)
ScriptPlanFrom(c, k) ==
    IF k > Len(c.sources) THEN <<>>
    ELSE ScriptPlanOne(c.sources[k], c.copies, c.per_subfolder, c.randomize, 0)
         \o ScriptPlanFrom(c, k + 1)

\* The parameters the claim is about: sources that exist, copies >= 1,
\* sequential names, a total within the limit.
SequentialValid(c) ==
    /\ \A k \in DOMAIN c.sources : SourceExists(c.sources[k])
    /\ c.copies >= 1
    /\ ~c.randomize
    /\ ~LimitExceeded(Len(c.sources) * c.copies, c.max_limit)

\* C19 (as stated): for existing sources, copies >= 1, sequential names, an
\* empty ledger and a total within the limit, a run of the positional
\* script plans the ordered list of (source, destination) pairs that
\* generate_files plans for the same parameters.
C19_FrontEndEquivalence ==
    (/\ cfg.frontend = "script"
     /\ cfg.argc = ScriptArgc
     /\ SequentialValid(cfg)
     /\ pc \in {"done", "error"}) =>
        /\ \A c \in FlagConfigs :
              SequentialValid(c) =>
                 Pairs(ScriptPlanFrom(c, 1)) = Pairs(CliPlanFrom(c, 1))
        /\ Pairs(tasks) = Pairs(CliPlanFrom(cfg, 1))

====
